---- MODULE Spec2Model ----
(***************************************************************************)
(* Field validation and record verification status of IonicLink, with the  *)
(* term normalizer of the knowledge bases and the EditableField component. *)
(*                                                                         *)
(* Spec: the data preview; SpecPure: the validators as functions; SpecKB:  *)
(* the knowledge base and normalize; SpecField: one EditableField.         *)
(*                                                                         *)
(* Strings are sequences of one-character strings; an absent (undefined)   *)
(* string field is the one-element sequence `absent'.  A value that is     *)
(* `T | null' in the source is a sequence of length at most one.           *)
(* Numbers produced by parseFloat are decimal fractions                    *)
(* (-1)^neg * mant / 10^decs, or NaN.                                       *)
(***************************************************************************)
EXTENDS Integers, Sequences, FiniteSets, TLC

VARIABLES records, selectedFile, lastOp, input, batch, ret, kb, raw, field

vars == <<records, selectedFile, lastOp, input, batch, ret, kb, raw, field>>

\* the knowledge base and the term handed to the normalizer
kbVars == <<kb, raw>>

(***************************************************************************)
(* Bounds of the model                                                     *)
(***************************************************************************)
MaxLen == 3

MaxBatch == 2

\* pending timers of handleBlur
MaxTimers == 2

(***************************************************************************)
(* Characters and strings                                                  *)
(***************************************************************************)
absent == <<"undefined">>

undefined == "undefined"

Digits == {"0", "1", "2", "3", "4", "5", "6", "7", "8", "9"}

NumChars == Digits \cup {"."}

WhiteSpace == {" ", "\t", "\n", "\r"}

Letters ==
    {"a", "b", "c", "d", "e", "f", "g", "h", "i", "j", "k", "l", "m",
     "n", "o", "p", "q", "r", "s", "t", "u", "v", "w", "x", "y", "z",
     "A", "B", "C", "D", "E", "F", "G", "H", "I", "J", "K", "L", "M",
     "N", "O", "P", "Q", "R", "S", "T", "U", "V", "W", "X", "Y", "Z",
     "µ"}

DigitVal(c) ==
    CASE c = "0" -> 0 [] c = "1" -> 1 [] c = "2" -> 2 [] c = "3" -> 3
      [] c = "4" -> 4 [] c = "5" -> 5 [] c = "6" -> 6 [] c = "7" -> 7
      [] c = "8" -> 8 [] c = "9" -> 9

\* s from index i to its end
Tail_(s, i) == SubSeq(s, i, Len(s))

\* length of the longest prefix of s made of characters of S
PrefixLen(s, S) ==
    CHOOSE n \in 0..Len(s) :
        /\ \A i \in 1..n : s[i] \in S
        /\ (n = Len(s) \/ s[n + 1] \notin S)

\* String.prototype.trim() === ''
IsBlank(s) == PrefixLen(s, WhiteSpace) = Len(s)

\* !s for a string | undefined
Falsy(s) == s = absent \/ s = <<>>

\* s.replace(/[^...]/g, ''): the characters of s that are in keep
KeepChars(s, keep) == SelectSeq(s, LAMBDA c : c \in keep)

RECURSIVE Pow10(_)
Pow10(n) == IF n = 0 THEN 1 ELSE 10 * Pow10(n - 1)

RECURSIVE NatOf(_)
NatOf(ds) ==
    IF ds = <<>> THEN 0
    ELSE 10 * NatOf(SubSeq(ds, 1, Len(ds) - 1)) + DigitVal(ds[Len(ds)])

(***************************************************************************)
(* parseFloat: leading white space is skipped, then the longest prefix     *)
(* [+-]? (digits [. digits?] | . digits) is converted; NaN when that       *)
(* prefix holds no digit.  Every call site passes a string already         *)
(* filtered by a character class without "e" and "I", so the exponent and  *)
(* Infinity forms of the grammar cannot occur in an argument.              *)
(***************************************************************************)
NaN == [nan |-> TRUE, neg |-> FALSE, mant |-> 0, decs |-> 0]

\* ni integer digits of s, then nf fraction digits after a dot
DecimalValue(neg, s, ni, nf) ==
    IF ni + nf = 0 THEN NaN
    ELSE [nan  |-> FALSE, neg |-> neg,
          mant |-> NatOf(SubSeq(s, 1, ni) \o SubSeq(s, ni + 2, ni + 1 + nf)),
          decs |-> nf]

DecimalFraction(neg, s, ni) ==
    DecimalValue(neg, s, ni,
                 IF ni < Len(s) /\ s[ni + 1] = "."
                 THEN PrefixLen(Tail_(s, ni + 2), Digits) ELSE 0)

Decimal(neg, s) == DecimalFraction(neg, s, PrefixLen(s, Digits))

SignedDecimal(s) ==
    IF s # <<>> /\ s[1] \in {"+", "-"} THEN Decimal(s[1] = "-", Tail(s))
    ELSE Decimal(FALSE, s)

parseFloat(str) == SignedDecimal(Tail_(str, PrefixLen(str, WhiteSpace) + 1))

isNaN(v) == v.nan

\* v < 0
Negative(v) == ~v.nan /\ v.neg /\ v.mant > 0

\* v > 1.5
Above1_5(v) == ~v.nan /\ ~v.neg /\ v.mant * 10 > 15 * Pow10(v.decs)

(***************************************************************************)
(* parseUnitValue, convertToNewtons                                        *)
(***************************************************************************)
\* the leftmost match of /([\d.]+)\s*([a-zA-Zµ]+)/ in s: <<>> or
\* <<[num |-> match[1], unit |-> match[2]]>>.  A match that starts inside a
\* run of [\d.] also starts at the beginning of that run, so the leftmost
\* match starts at the beginning of a run.
EndOfNum(s, i) == i + PrefixLen(Tail_(s, i), NumChars)

\* UnitAt for a pattern without \s* between the two groups
UnitAt_adjacent(s, i) == EndOfNum(s, i)

UnitAt(s, i) == EndOfNum(s, i) + PrefixLen(Tail_(s, EndOfNum(s, i)), WhiteSpace)

LetterAt(s, u) == u <= Len(s) /\ s[u] \in Letters

MatchesAt(s, i) == s[i] \in NumChars /\ LetterAt(s, UnitAt(s, i))

MatchGroups(s, i, e, u) ==
    [num  |-> SubSeq(s, i, e - 1),
     unit |-> SubSeq(s, u, u + PrefixLen(Tail_(s, u), Letters) - 1)]

MatchAt(s, i) == <<MatchGroups(s, i, EndOfNum(s, i), UnitAt(s, i))>>

Leftmost(starts) == CHOOSE j \in starts : \A k \in starts : j <= k

LeftmostMatch(s, starts) ==
    IF starts = {} THEN <<>> ELSE MatchAt(s, Leftmost(starts))

UnitMatch(s) == LeftmostMatch(s, {i \in 1..Len(s) : MatchesAt(s, i)})

UnitValue(value, unit) ==
    IF isNaN(value) THEN <<>> ELSE <<[value |-> value, unit |-> unit]>>

MatchedUnitValue(match) ==
    IF match = <<>> THEN <<>>
    ELSE UnitValue(parseFloat(match[1].num), match[1].unit)

parseUnitValue(valueWithUnit) ==
    IF Falsy(valueWithUnit) THEN <<>>
    ELSE MatchedUnitValue(UnitMatch(valueWithUnit))

\* the conversion table with the factor of N for every unit
conversions_allOne ==
    [u \in {<<"N">>, <<"m", "N">>, <<"µ", "N">>, <<"u", "N">>, <<"n", "N">>} |-> 0]

\* the conversion table: unit -> k, the factor being 10^-k
conversions ==
    [u \in {<<"N">>, <<"m", "N">>, <<"µ", "N">>, <<"u", "N">>, <<"n", "N">>} |->
        CASE u = <<"N">> -> 0
          [] u = <<"m", "N">> -> 3
          [] u = <<"µ", "N">> -> 6
          [] u = <<"u", "N">> -> 6
          [] u = <<"n", "N">> -> 9]

\* the table is an object literal: a lookup by a key that it does not own
\* falls through to Object.prototype, whose letter-only keys are these
ObjectPrototypeKeys ==
    {<<"c", "o", "n", "s", "t", "r", "u", "c", "t", "o", "r">>,
     <<"t", "o", "S", "t", "r", "i", "n", "g">>,
     <<"v", "a", "l", "u", "e", "O", "f">>,
     <<"t", "o", "L", "o", "c", "a", "l", "e", "S", "t", "r", "i", "n", "g">>,
     <<"h", "a", "s", "O", "w", "n", "P", "r", "o", "p", "e", "r", "t", "y">>,
     <<"i", "s", "P", "r", "o", "t", "o", "t", "y", "p", "e", "O", "f">>,
     <<"p", "r", "o", "p", "e", "r", "t", "y", "I", "s", "E", "n", "u", "m",
       "e", "r", "a", "b", "l", "e">>}

\* value * conversions[unit]: <<>> for null, else <<number>>; a number times
\* a function of Object.prototype is NaN
InNewtons(parsed) ==
    IF parsed = <<>> THEN <<>>
    ELSE IF parsed[1].unit \in DOMAIN conversions
    THEN <<[parsed[1].value EXCEPT !.decs = @ + conversions[parsed[1].unit]]>>
    ELSE IF parsed[1].unit \in ObjectPrototypeKeys THEN <<NaN>>
    ELSE <<>>

convertToNewtons(valueWithUnit) == InNewtons(parseUnitValue(valueWithUnit))

(***************************************************************************)
(* Field validators: <<>> for null, else <<issue>>                         *)
(***************************************************************************)
Issue(f, m, sev) == [field |-> f, message |-> m, severity |-> sev]

MsgMissingCOF == "Missing COF value"

MsgInvalidCOF == "Invalid COF format"

MsgNegativeCOF == "COF cannot be negative"

MsgUnusualCOF == "COF > 1.5 is physically unusual"

MsgLoadUnit == "Load value must include unit (e.g., 5 N, 100 mN)"

MsgLoadUnsupported == "Unsupported unit for load"

MsgForceUnit == "Force value must include unit (e.g., 5 N, 100 mN)"

\* a character class that keeps the sign, the digits and the dot
CofKeptChars_signed == NumChars \cup {"-"}

\* the character class of /[^\\d.]/g keeps: a backslash, the letter d, a dot
CofKeptChars == {"\\", "d", "."}

\* cofValue: the number that validateCOF checks
CofNumber(cof) == parseFloat(KeepChars(cof, CofKeptChars))

\* the checks of validateCOF on the parsed number
RangeIssue(cofValue) ==
    IF isNaN(cofValue) THEN <<Issue("cof", MsgInvalidCOF, "warning")>>
    ELSE IF Negative(cofValue) THEN <<Issue("cof", MsgNegativeCOF, "error")>>
    ELSE IF Above1_5(cofValue) THEN <<Issue("cof", MsgUnusualCOF, "warning")>>
    ELSE <<>>

\* validateCOF without the cof === '-' test
validateCOF_noDash(cof) ==
    IF Falsy(cof) \/ IsBlank(cof)
    THEN <<Issue("cof", MsgMissingCOF, "warning")>>
    ELSE RangeIssue(CofNumber(cof))

validateCOF(cof) ==
    IF Falsy(cof) \/ cof = <<"-">> \/ IsBlank(cof)
    THEN <<Issue("cof", MsgMissingCOF, "warning")>>
    ELSE RangeIssue(CofNumber(cof))

validateLoad(load) ==
    IF Falsy(load) THEN <<>>
    ELSE IF parseUnitValue(load) = <<>>
    THEN <<Issue("load", MsgLoadUnit, "warning")>>
    ELSE IF convertToNewtons(load) = <<>>
    THEN <<Issue("load", MsgLoadUnsupported, "warning")>>
    ELSE <<>>

\* validateFrictionForce with the conversion check of validateLoad
validateFrictionForce_likeLoad(force) ==
    IF Falsy(force) THEN <<>>
    ELSE IF parseUnitValue(force) = <<>>
    THEN <<Issue("friction_force", MsgForceUnit, "warning")>>
    ELSE IF convertToNewtons(force) = <<>>
    THEN <<Issue("friction_force", "Unsupported unit for force", "warning")>>
    ELSE <<>>

validateFrictionForce(force) ==
    IF Falsy(force) THEN <<>>
    ELSE IF parseUnitValue(force) = <<>>
    THEN <<Issue("friction_force", MsgForceUnit, "warning")>>
    ELSE <<>>

NumberOrUndefined(val) == IF isNaN(val) THEN <<>> ELSE <<val>>

\* parseCof of the data preview: <<>> for undefined, else <<number>>
parseCof(cof) ==
    IF Falsy(cof) THEN <<>>
    ELSE NumberOrUndefined(parseFloat(KeepChars(cof, NumChars)))

(***************************************************************************)
(* Records and validateRecord                                              *)
(***************************************************************************)
Statuses == {"unverified", "verified", "modified", "warning"}

\* a TribologyData: the fields that validation reads and the validation
\* fields; originalValue is <<>> until set
TribologyData(cof, load, force, status) ==
    [cof |-> cof, load |-> load, friction_force |-> force,
     validationStatus |-> status, validationMessage |-> undefined,
     originalValue |-> <<>>]

hasSeverity(issues, sev) == \E i \in 1..Len(issues) : issues[i].severity = sev

\* the issues pushed with the load before the COF
CollectIssues_loadFirst(record) ==
    validateLoad(record.load) \o validateCOF(record.cof)
        \o validateFrictionForce(record.friction_force)

\* the issues of the three validated fields, in the order they are pushed
CollectIssues(record) ==
    validateCOF(record.cof) \o validateLoad(record.load)
        \o validateFrictionForce(record.friction_force)

\* FirstMessage taking the last issue
FirstMessage_last(issues) ==
    IF Len(issues) > 0 THEN issues[Len(issues)].message ELSE undefined

FirstMessage(issues) == IF Len(issues) > 0 THEN issues[1].message ELSE undefined

\* the status before the rule that keeps a verified or modified status
FlaggedStatus(record, issues) ==
    IF hasSeverity(issues, "error") \/ hasSeverity(issues, "warning") THEN "warning"
    ELSE IF record.validationStatus = undefined THEN "unverified"
    ELSE record.validationStatus

\* ValidationResult without the rule that keeps a verified or modified status
ValidationResult_noKeep(record, issues) ==
    [status  |-> FlaggedStatus(record, issues),
     message |-> FirstMessage(issues),
     issues  |-> issues]

\* ValidationResult that promotes a stored warning without error to verified
ValidationResult_promotesWarning(record, issues) ==
    [status  |-> IF ~hasSeverity(issues, "error") /\ record.validationStatus = "warning"
                 THEN "verified"
                 ELSE IF /\ ~hasSeverity(issues, "error")
                         /\ record.validationStatus \in {"verified", "modified"}
                 THEN record.validationStatus
                 ELSE FlaggedStatus(record, issues),
     message |-> FirstMessage(issues),
     issues  |-> issues]

ValidationResult(record, issues) ==
    [status  |-> IF /\ ~hasSeverity(issues, "error")
                    /\ record.validationStatus \in {"verified", "modified"}
                 THEN record.validationStatus
                 ELSE FlaggedStatus(record, issues),
     message |-> FirstMessage(issues),
     issues  |-> issues]

validateRecord(record) == ValidationResult(record, CollectIssues(record))

\* an element of the array handed to validateBatch: a record and its id, a
\* non-empty string or undefined
BatchItem(id, record) == [id |-> id, rec |-> record]

\* results.set(key, value) on the Map, a function from the keys set so far
MapSet(results, key, value) ==
    [k \in DOMAIN results \cup {key} |-> IF k = key THEN value ELSE results[k]]

\* one iteration of the forEach of validateBatch
\* StoreResult that keeps the result already stored under the id
StoreResult_keepFirst(results, item) ==
    IF item.id = undefined \/ item.id = "" \/ item.id \in DOMAIN results THEN results
    ELSE MapSet(results, item.id, validateRecord(item.rec))

StoreResult(results, item) ==
    IF item.id = undefined \/ item.id = "" THEN results
    ELSE MapSet(results, item.id, validateRecord(item.rec))

RECURSIVE ForEachFrom(_, _, _)
ForEachFrom(items, i, results) ==
    IF i > Len(items) THEN results
    ELSE ForEachFrom(items, i + 1, StoreResult(results, items[i]))

\* new Map(): no key
EmptyMap == [k \in {} |-> <<>>]

validateBatch(items) == ForEachFrom(items, 1, EmptyMap)

(***************************************************************************)
(* Knowledge base and term normalizer.  The Python modules                 *)
(* il_knowledge_base.py and surface_knowledge_base.py are described by     *)
(* their READMEs only; the definitions below follow the design of the      *)
(* knowledge base and of the normalizer (KnowledgeEntry, KnowledgeBase,    *)
(* lookup, normalize).                                                     *)
(***************************************************************************)
UpperCase ==
    <<"A", "B", "C", "D", "E", "F", "G", "H", "I", "J", "K", "L", "M",
      "N", "O", "P", "Q", "R", "S", "T", "U", "V", "W", "X", "Y", "Z">>

LowerCase ==
    <<"a", "b", "c", "d", "e", "f", "g", "h", "i", "j", "k", "l", "m",
      "n", "o", "p", "q", "r", "s", "t", "u", "v", "w", "x", "y", "z">>

Lower(c) ==
    IF \E i \in 1..Len(UpperCase) : UpperCase[i] = c
    THEN LowerCase[CHOOSE i \in 1..Len(UpperCase) : UpperCase[i] = c]
    ELSE c

\* case folding
Fold(s) == [i \in 1..Len(s) |-> Lower(s[i])]

Reverse(s) == [i \in 1..Len(s) |-> s[Len(s) + 1 - i]]

\* s without its leading and trailing white space
Trim(s) ==
    SubSeq(s, PrefixLen(s, WhiteSpace) + 1,
              Len(s) - PrefixLen(Reverse(s), WhiteSpace))

Brackets == {"[", "]"}

\* the normalized form: case-folded, brackets and spaces removed
NormalForm(s) == SelectSeq(Fold(s), LAMBDA c : c \notin Brackets \cup WhiteSpace)

\* the pattern p, a literal, matches somewhere in s
Contains(s, p) ==
    \E i \in 1..(Len(s) - Len(p) + 1) : SubSeq(s, i, i + Len(p) - 1) = p

KnowledgeEntry(term, aliases, patterns) ==
    [canonicalTerm |-> term, aliases |-> aliases, patterns |-> patterns]

\* tier 1: exact alias, case-insensitive and trimmed
AliasHit(entry, x) == \E a \in entry.aliases : Fold(Trim(a)) = Fold(Trim(x))

\* tier 2: a pattern of the entry matches anywhere in the case-folded input
PatternHit(entry, x) ==
    \E i \in 1..Len(entry.patterns) : Contains(Fold(x), entry.patterns[i])

\* tier 3: equal normalized forms
NormalHit(entry, x) == \E a \in entry.aliases : NormalForm(a) = NormalForm(x)

AliasHits(entries, x) == {i \in 1..Len(entries) : AliasHit(entries[i], x)}

PatternHits(entries, x) == {i \in 1..Len(entries) : PatternHit(entries[i], x)}

NormalHits(entries, x) == {i \in 1..Len(entries) : NormalHit(entries[i], x)}

\* lookup with the patterns tried before the aliases
lookup_patternFirst(entries, x) ==
    IF PatternHits(entries, x) # {}
    THEN <<entries[Leftmost(PatternHits(entries, x))].canonicalTerm>>
    ELSE IF AliasHits(entries, x) # {}
    THEN <<entries[Leftmost(AliasHits(entries, x))].canonicalTerm>>
    ELSE IF NormalHits(entries, x) # {}
    THEN <<entries[Leftmost(NormalHits(entries, x))].canonicalTerm>>
    ELSE <<>>

\* lookup: <<>> for null, else <<canonicalTerm>>; within a tier the entries
\* are tried in declaration order
lookup(entries, x) ==
    IF AliasHits(entries, x) # {}
    THEN <<entries[Leftmost(AliasHits(entries, x))].canonicalTerm>>
    ELSE IF PatternHits(entries, x) # {}
    THEN <<entries[Leftmost(PatternHits(entries, x))].canonicalTerm>>
    ELSE IF NormalHits(entries, x) # {}
    THEN <<entries[Leftmost(NormalHits(entries, x))].canonicalTerm>>
    ELSE <<>>

TermOrInput(found, x) == IF found = <<>> THEN Trim(x) ELSE found[1]

normalize(entries, x) == TermOrInput(lookup(entries, x), x)

\* an alias maps to two entries once case-folded and normalized
AliasCollision(entries) ==
    \E i, j \in 1..Len(entries) :
        /\ i # j
        /\ \E a \in entries[i].aliases, b \in entries[j].aliases :
              NormalForm(a) = NormalForm(b)

\* a canonical term matches the alias or pattern set of another entry
CanonicalOverlap(entries) ==
    \E i, j \in 1..Len(entries) :
        /\ i # j
        /\ \/ AliasHit(entries[j], entries[i].canonicalTerm)
           \/ PatternHit(entries[j], entries[i].canonicalTerm)
           \/ NormalHit(entries[j], entries[i].canonicalTerm)

\* the construction invariant without the check of the canonical terms
ValidBase_aliasesOnly(entries) == ~AliasCollision(entries)

\* the construction invariant without the check of the aliases
ValidBase_canonicalOnly(entries) == ~CanonicalOverlap(entries)

\* the construction invariant
ValidBase(entries) == ~AliasCollision(entries) /\ ~CanonicalOverlap(entries)

KnowledgeBase(status, entries, reload) ==
    [status |-> status, entries |-> entries, reload |-> reload]

NoBase == KnowledgeBase("none", <<>>, "none")

WithAlias(entries, i, alias) ==
    [entries EXCEPT ![i].aliases = @ \cup {alias}]

(***************************************************************************)
(* EditableField: the state of one component instance                      *)
(***************************************************************************)
\* modelValue: a string or absent; editValue: a string; disabled: the prop;
\* timers: the pending
\* timers of handleBlur; emits: the update:modelValue events of the edit
\* session; last: the function that ran last; detached: the input has just
\* been removed while it had the focus
EditableField(modelValue, isEditing, editValue) ==
    [modelValue |-> modelValue, isEditing |-> isEditing, editValue |-> editValue,
     disabled |-> FALSE, timers |-> 0, emits |-> 0, last |-> "setup",
     detached |-> FALSE]

\* value || ''
OrEmpty(value) == IF Falsy(value) THEN <<>> ELSE value

\* value || undefined
OrUndefined(value) == IF Falsy(value) THEN absent ELSE value

NoField == EditableField(absent, FALSE, <<>>)

(***************************************************************************)
(* The data preview of the selected file: its records, edited and verified *)
(***************************************************************************)
RecordIds == {"r1", "r2"}

\* a record id that no record of the file has
NoSuchId == "r0"

Cof_lt_0_01 == <<"<", "0", ".", "0", "1">>

Cof_2_0 == <<"2", ".", "0">>

Load_55_mN == <<"5", "5", " ", "m", "N">>

\* what the extraction step delivers: the fields of a record, and the status
\* stored with it, if any
ExtractedRecords ==
    {TribologyData(Cof_lt_0_01, Load_55_mN, absent, st) :
        st \in {undefined, "unverified", "warning"}}

\* the edits that the editable fields of the preview emit: a field of the
\* record and a non-empty string or undefined
EditedFields == {"cof", "load"}

EditValues(fieldName) ==
    CASE fieldName = "cof" -> {Cof_2_0, absent}
      [] fieldName = "load" -> {<<"5">>}

NoOp == [op |-> "none", id |-> NoSuchId, field |-> "none", before |-> undefined]

NoRet == [fn |-> "none", issue |-> <<>>, result |-> <<>>, value |-> <<>>]

IdleInput == TribologyData(absent, absent, absent, undefined)

Init ==
    /\ records \in [RecordIds -> ExtractedRecords]
    /\ selectedFile \in BOOLEAN
    /\ lastOp = NoOp
    /\ input = IdleInput
    /\ batch = <<>>
    /\ ret = NoRet
    /\ kb = NoBase
    /\ raw = <<>>
    /\ field = NoField

\* the file list selects the file or selects none
SelectFile ==
    /\ selectedFile' = ~selectedFile
    /\ UNCHANGED <<records, lastOp, input, batch, ret, kbVars, field>>

\* updateRecordField without the 'modified' mark before the re-validation
updateRecordField_noMark(recordId, fieldName, value) ==
    /\ IF ~selectedFile \/ recordId \notin RecordIds
       THEN UNCHANGED <<records, lastOp>>
       ELSE LET record     == records[recordId]
                snapshot   == IF record.originalValue = <<>>
                              THEN [record EXCEPT !.originalValue = <<record>>]
                              ELSE record
                updated    == [snapshot EXCEPT ![fieldName] = value]
                validation == validateRecord(updated)
            IN  /\ records' = [records EXCEPT ![recordId] =
                        [updated EXCEPT !.validationStatus = validation.status,
                                        !.validationMessage = validation.message]]
                /\ lastOp' = [op |-> "updateRecordField", id |-> recordId,
                              field |-> fieldName, before |-> record.validationStatus]
    /\ UNCHANGED <<selectedFile, input, batch, ret, kbVars, field>>

\* updateRecordField that takes the snapshot at every edit
updateRecordField_snapshotEveryEdit(recordId, fieldName, value) ==
    /\ IF ~selectedFile \/ recordId \notin RecordIds
       THEN UNCHANGED <<records, lastOp>>
       ELSE LET record     == records[recordId]
                snapshot   == [record EXCEPT !.originalValue =
                                   <<[record EXCEPT !.originalValue = <<>>]>>]
                updated    == [snapshot EXCEPT ![fieldName] = value,
                                               !.validationStatus = "modified"]
                validation == validateRecord(updated)
            IN  /\ records' = [records EXCEPT ![recordId] =
                        [updated EXCEPT !.validationStatus = validation.status,
                                        !.validationMessage = validation.message]]
                /\ lastOp' = [op |-> "updateRecordField", id |-> recordId,
                              field |-> fieldName, before |-> record.validationStatus]
    /\ UNCHANGED <<selectedFile, input, batch, ret, kbVars, field>>

updateRecordField(recordId, fieldName, value) ==
    /\ IF ~selectedFile \/ recordId \notin RecordIds
       THEN UNCHANGED <<records, lastOp>>
       ELSE LET record     == records[recordId]
                snapshot   == IF record.originalValue = <<>>
                              THEN [record EXCEPT !.originalValue = <<record>>]
                              ELSE record
                updated    == [snapshot EXCEPT ![fieldName] = value,
                                               !.validationStatus = "modified"]
                validation == validateRecord(updated)
            IN  /\ records' = [records EXCEPT ![recordId] =
                        [updated EXCEPT !.validationStatus = validation.status,
                                        !.validationMessage = validation.message]]
                /\ lastOp' = [op |-> "updateRecordField", id |-> recordId,
                              field |-> fieldName, before |-> record.validationStatus]
    /\ UNCHANGED <<selectedFile, input, batch, ret, kbVars, field>>

\* verifyRecord that stores the result of automatic validation on both paths
verifyRecord_validates(recordId) ==
    /\ IF ~selectedFile \/ recordId \notin RecordIds
       THEN UNCHANGED <<records, lastOp>>
       ELSE LET record     == records[recordId]
                validation == validateRecord(
                                 [record EXCEPT !.validationStatus = "unverified"])
            IN  /\ records' = [records EXCEPT ![recordId] =
                        IF record.validationStatus = "verified" \/ validation.issues # <<>>
                        THEN [record EXCEPT !.validationStatus = validation.status,
                                            !.validationMessage = validation.message]
                        ELSE [record EXCEPT !.validationStatus = "verified",
                                            !.validationMessage = undefined]]
                /\ lastOp' = [op |-> "verifyRecord", id |-> recordId,
                              field |-> "none", before |-> record.validationStatus]
    /\ UNCHANGED <<selectedFile, input, batch, ret, kbVars, field>>

\* verifyRecord whose second click resets the record to unverified
verifyRecord_resets(recordId) ==
    /\ IF ~selectedFile \/ recordId \notin RecordIds
       THEN UNCHANGED <<records, lastOp>>
       ELSE LET record == records[recordId]
            IN  /\ records' = [records EXCEPT ![recordId] =
                        IF record.validationStatus = "verified"
                        THEN [record EXCEPT !.validationStatus = "unverified",
                                            !.validationMessage = undefined]
                        ELSE [record EXCEPT !.validationStatus = "verified",
                                            !.validationMessage = undefined]]
                /\ lastOp' = [op |-> "verifyRecord", id |-> recordId,
                              field |-> "none", before |-> record.validationStatus]
    /\ UNCHANGED <<selectedFile, input, batch, ret, kbVars, field>>

verifyRecord(recordId) ==
    /\ IF ~selectedFile \/ recordId \notin RecordIds
       THEN UNCHANGED <<records, lastOp>>
       ELSE LET record     == records[recordId]
                validation == validateRecord(record)
            IN  /\ records' = [records EXCEPT ![recordId] =
                        IF record.validationStatus = "verified"
                        THEN [record EXCEPT !.validationStatus = validation.status,
                                            !.validationMessage = validation.message]
                        ELSE [record EXCEPT !.validationStatus = "verified",
                                            !.validationMessage = undefined]]
                /\ lastOp' = [op |-> "verifyRecord", id |-> recordId,
                              field |-> "none", before |-> record.validationStatus]
    /\ UNCHANGED <<selectedFile, input, batch, ret, kbVars, field>>

\* markAllAsVerified that promotes only the records without any issue
markAllAsVerified_issueFree ==
    /\ IF ~selectedFile
       THEN UNCHANGED <<records, lastOp>>
       ELSE /\ records' = [id \in RecordIds |->
                    LET record     == records[id]
                        validation == validateRecord(record)
                    IN  IF validation.issues = <<>>
                        THEN [record EXCEPT !.validationStatus = "verified",
                                            !.validationMessage = undefined]
                        ELSE record]
            /\ lastOp' = [op |-> "markAllAsVerified", id |-> NoSuchId,
                          field |-> "none", before |-> undefined]
    /\ UNCHANGED <<selectedFile, input, batch, ret, kbVars, field>>

markAllAsVerified ==
    /\ IF ~selectedFile
       THEN UNCHANGED <<records, lastOp>>
       ELSE /\ records' = [id \in RecordIds |->
                    LET record     == records[id]
                        validation == validateRecord(record)
                    IN  IF ~hasSeverity(validation.issues, "error")
                        THEN [record EXCEPT !.validationStatus = "verified",
                                            !.validationMessage = undefined]
                        ELSE record]
            /\ lastOp' = [op |-> "markAllAsVerified", id |-> NoSuchId,
                          field |-> "none", before |-> undefined]
    /\ UNCHANGED <<selectedFile, input, batch, ret, kbVars, field>>

Edit ==
    \E recordId \in RecordIds \cup {NoSuchId}, fieldName \in EditedFields :
        \E value \in EditValues(fieldName) :
            updateRecordField(recordId, fieldName, value)

Verify == \E recordId \in RecordIds \cup {NoSuchId} : verifyRecord(recordId)

Next == SelectFile \/ Edit \/ Verify \/ markAllAsVerified

Spec == Init /\ [][Next]_vars

(***************************************************************************)
(* The validators applied to one input: an input is drawn, then one of the *)
(* functions is applied to it and its return value recorded                *)
(***************************************************************************)
CofAlphabet == {"0", "1", "2", "5", ".", "-", "<", " ", "d"}

StringsOver(alphabet, n) == UNION {[1..k -> alphabet] : k \in 0..n}

Cof_1_51 == <<"1", ".", "5", "1">>

Cof_neg_0_1 == <<"-", "0", ".", "1">>

Cof_lt_0_02 == <<"<", " ", "0", ".", "0", "2">>

CofInputs ==
    StringsOver(CofAlphabet, MaxLen)
        \cup {absent, Cof_1_51, Cof_neg_0_1, Cof_lt_0_02, Cof_lt_0_01}

LoadInputs == {absent, Load_55_mN, <<"5">>, <<"5", " ", "X", "Y", "Z">>}

ForceInputs == {absent, <<"5", " ", "N">>, <<"5">>}

RecordInputs ==
    {TribologyData(c, l, f, st) :
        c \in {absent, <<"-">>, <<"0", ".", "5">>, Cof_2_0, Cof_neg_0_1, Cof_lt_0_01},
        l \in LoadInputs, f \in ForceInputs, st \in Statuses \cup {undefined}}

LoadAlphabet == {"5", ".", " ", "N", "m", "<"}

Load_5_XYZ == <<"5", " ", "X", "Y", "Z">>

Load_5_constructor ==
    <<"5", " ", "c", "o", "n", "s", "t", "r", "u", "c", "t", "o", "r">>

Load_1_lt_5_N == <<"1", "<", "5", " ", "N">>

\* the load and friction-force strings: every short string of the alphabet
\* and some longer ones
UnitStrings ==
    StringsOver(LoadAlphabet, MaxLen)
        \cup {absent, Load_55_mN, Load_5_XYZ, Load_5_constructor, Load_1_lt_5_N,
              <<"1", "0", "0", " ", "µ", "N">>, <<"5", ".", "5", "n", "N">>,
              <<"~", "5", " ", "u", "N", " ", "(", "a", ")">>,
              <<"5", " ", "t", "o", "S", "t", "r", "i", "n", "g">>}

\* decimal numerals: an optional minus sign, digits with at most one decimal
\* point, at least one digit
IsNumeral(s) ==
    /\ \A i \in 1..Len(s) : s[i] \in NumChars \/ (i = 1 /\ s[i] = "-")
    /\ Cardinality({i \in 1..Len(s) : s[i] = "."}) <= 1
    /\ \E i \in 1..Len(s) : s[i] \in Digits

Numerals == {s \in StringsOver({"0", "5", ".", "-"}, MaxLen) : IsNumeral(s)}

\* the strings "v u" of a numeral v and a unit u of the conversion table
ValueUnitStrings == {v \o <<" ">> \o u : v \in Numerals, u \in DOMAIN conversions}

PureInputs ==
    {TribologyData(c, absent, absent, undefined) : c \in CofInputs}
        \cup {TribologyData(absent, l, l, undefined) :
                l \in UnitStrings \cup ValueUnitStrings}
        \cup RecordInputs

BatchIds == {undefined, "a", "b"}

BatchRecords ==
    {TribologyData(absent, absent, absent, undefined),
     TribologyData(Cof_2_0, absent, absent, "unverified"),
     TribologyData(Cof_2_0, <<"5">>, absent, "verified")}

BatchItems == {BatchItem(id, rec) : id \in BatchIds, rec \in BatchRecords}

Batches == UNION {[1..k -> BatchItems] : k \in 0..MaxBatch}

InitPure ==
    /\ records = [id \in RecordIds |-> IdleInput]
    /\ selectedFile = FALSE
    /\ lastOp = NoOp
    /\ \/ input \in PureInputs /\ batch = <<>>
       \/ input = IdleInput /\ batch \in Batches
    /\ ret = NoRet
    /\ kb = NoBase
    /\ raw = <<>>
    /\ field = NoField

CallValidateCOF ==
    /\ ret.fn = "none"
    /\ ret' = [NoRet EXCEPT !.fn = "validateCOF", !.issue = validateCOF(input.cof)]
    /\ UNCHANGED <<records, selectedFile, lastOp, input, batch, kbVars, field>>

\* CallValidateRecord for a validateRecord that writes its status and message
\* into the record
CallValidateRecord_storesStatus ==
    /\ ret.fn = "none"
    /\ ret' = [NoRet EXCEPT !.fn = "validateRecord", !.result = <<validateRecord(input)>>]
    /\ input' = [input EXCEPT !.validationStatus = validateRecord(input).status,
                               !.validationMessage = validateRecord(input).message]
    /\ UNCHANGED <<records, selectedFile, lastOp, batch, kbVars, field>>

CallValidateRecord ==
    /\ ret.fn = "none"
    /\ ret' = [NoRet EXCEPT !.fn = "validateRecord",
                             !.result = <<validateRecord(input)>>]
    /\ UNCHANGED <<records, selectedFile, lastOp, input, batch, kbVars, field>>

CallValidateLoad ==
    /\ ret.fn = "none"
    /\ ret' = [NoRet EXCEPT !.fn = "validateLoad", !.issue = validateLoad(input.load)]
    /\ UNCHANGED <<records, selectedFile, lastOp, input, batch, kbVars, field>>

CallValidateFrictionForce ==
    /\ ret.fn = "none"
    /\ ret' = [NoRet EXCEPT !.fn = "validateFrictionForce",
                             !.issue = validateFrictionForce(input.friction_force)]
    /\ UNCHANGED <<records, selectedFile, lastOp, input, batch, kbVars, field>>

CallParseUnitValue ==
    /\ ret.fn = "none"
    /\ ret' = [NoRet EXCEPT !.fn = "parseUnitValue",
                             !.value = parseUnitValue(input.load)]
    /\ UNCHANGED <<records, selectedFile, lastOp, input, batch, kbVars, field>>

CallConvertToNewtons ==
    /\ ret.fn = "none"
    /\ ret' = [NoRet EXCEPT !.fn = "convertToNewtons",
                             !.value = convertToNewtons(input.load)]
    /\ UNCHANGED <<records, selectedFile, lastOp, input, batch, kbVars, field>>

CallValidateBatch ==
    /\ ret.fn = "none"
    /\ ret' = [NoRet EXCEPT !.fn = "validateBatch", !.value = validateBatch(batch)]
    /\ UNCHANGED <<records, selectedFile, lastOp, input, batch, kbVars, field>>

\* the caller stores the status and the message of the result in the record
StoreValidation(record, validation) ==
    [record EXCEPT !.validationStatus = validation.status,
                   !.validationMessage = validation.message]

\* the record with the result stored is validated again: ret.value keeps
\* the first result
CallValidateRecordAgain ==
    /\ ret.fn = "validateRecord"
    /\ ret' = [NoRet EXCEPT !.fn = "validateRecordAgain",
                             !.value = ret.result,
                             !.result = <<validateRecord(
                                            StoreValidation(input, ret.result[1]))>>]
    /\ UNCHANGED <<records, selectedFile, lastOp, input, batch, kbVars, field>>

NextPure ==
    \/ CallValidateCOF
    \/ CallValidateLoad
    \/ CallValidateFrictionForce
    \/ CallParseUnitValue
    \/ CallConvertToNewtons
    \/ CallValidateRecord
    \/ CallValidateRecordAgain
    \/ CallValidateBatch

SpecPure == InitPure /\ [][NextPure]_vars

(***************************************************************************)
(* The knowledge base built from a configuration, reloaded with one more   *)
(* alias, and queried: a term is normalized, then its result is normalized *)
(***************************************************************************)
Term_T == <<"T">>

Term_U == <<"U">>

AliasPool == {<<"t">>, <<"u">>, <<"t", "u">>}

PatternPool == {<<"t">>, <<"u">>}

\* the aliases and the patterns of one configured entry: at most one of each
EntryAliases == {{}} \cup {{a} : a \in AliasPool}

EntryPatterns == {<<>>} \cup {<<p>> : p \in PatternPool}

\* the configurations: two entries, declared in this order
Configurations ==
    {<<KnowledgeEntry(Term_T, a1, p1), KnowledgeEntry(Term_U, a2, p2)>> :
        a1 \in EntryAliases, p1 \in EntryPatterns,
        a2 \in EntryAliases, p2 \in EntryPatterns}

\* the aliases added by a reload
AddedAliases == {<<"T">>, <<"[", "t", "]">>, <<"t", " ", "u">>, <<"u">>}

RawAlphabet == {"t", "u", "T", "[", " "}

RawInputs ==
    StringsOver(RawAlphabet, MaxLen)
        \cup {Term_T, Term_U, <<"[", "t", "]">>, <<"[", "T", "]", "[", "U", "]">>,
              <<" ", "T", "u", " ">>}

InitKB ==
    /\ records = [id \in RecordIds |-> IdleInput]
    /\ selectedFile = FALSE
    /\ lastOp = NoOp
    /\ input = IdleInput
    /\ batch = <<>>
    /\ ret = NoRet
    /\ kb \in {KnowledgeBase("configured", c, "none") : c \in Configurations}
    /\ raw = <<>>
    /\ field = NoField

\* construction: the base is served only if the invariant holds
Construct ==
    /\ kb.status = "configured"
    /\ kb' = [kb EXCEPT !.status = IF ValidBase(kb.entries) THEN "built" ELSE "failed"]
    /\ UNCHANGED <<records, selectedFile, lastOp, input, batch, ret, raw, field>>

\* the reload that adds an alias: it takes effect only if the invariant
\* holds of the new entries
AddAlias(i, alias) ==
    /\ kb.status = "built"
    /\ kb.reload = "none"
    /\ ret.fn = "none"
    /\ kb' = IF ValidBase(WithAlias(kb.entries, i, alias))
             THEN [kb EXCEPT !.entries = WithAlias(kb.entries, i, alias),
                             !.reload = "applied"]
             ELSE [kb EXCEPT !.reload = "rejected"]
    /\ UNCHANGED <<records, selectedFile, lastOp, input, batch, ret, raw, field>>

Reload == \E i \in 1..Len(kb.entries), alias \in AddedAliases : AddAlias(i, alias)

CallNormalize ==
    /\ kb.status = "built"
    /\ ret.fn = "none"
    /\ \E x \in RawInputs :
          /\ raw' = x
          /\ ret' = [NoRet EXCEPT !.fn = "normalize",
                                   !.value = <<normalize(kb.entries, x)>>]
    /\ UNCHANGED <<records, selectedFile, lastOp, input, batch, kb, field>>

\* the result of normalize is handed to normalize; ret.result keeps the
\* first result
CallNormalizeAgain ==
    /\ ret.fn = "normalize"
    /\ ret' = [NoRet EXCEPT !.fn = "normalizeAgain",
                             !.result = ret.value,
                             !.value = <<normalize(kb.entries, ret.value[1])>>]
    /\ UNCHANGED <<records, selectedFile, lastOp, input, batch, kb, raw, field>>

NextKB ==
    \/ Construct
    \/ Reload
    \/ CallNormalize
    \/ CallNormalizeAgain

SpecKB == InitKB /\ [][NextKB]_vars

(***************************************************************************)
(* EditableField: clicks, typing, keys, blur and its timers, and changes   *)
(* of the model value by the parent                                        *)
(***************************************************************************)
FieldValues == {absent, <<"a">>, <<"b">>}

FieldTexts == {<<>>, <<"a">>, <<"b">>}

InitField ==
    /\ records = [id \in RecordIds |-> IdleInput]
    /\ selectedFile = FALSE
    /\ lastOp = NoOp
    /\ input = IdleInput
    /\ batch = <<>>
    /\ ret = NoRet
    /\ kb = NoBase
    /\ raw = <<>>
    /\ field \in {[EditableField(v, FALSE, OrEmpty(v)) EXCEPT !.disabled = d] :
                    v \in FieldValues, d \in BOOLEAN}

\* the click on the displayed value, which is rendered in view mode only
startEditing ==
    /\ ~field.isEditing
    /\ field' = IF field.disabled THEN field
                ELSE [field EXCEPT !.isEditing = TRUE,
                                   !.editValue = OrEmpty(field.modelValue),
                                   !.emits = 0,
                                   !.last = "startEditing",
                                   !.detached = FALSE]
    /\ UNCHANGED <<records, selectedFile, lastOp, input, batch, ret, kbVars>>

\* v-model of the input
TypeText ==
    /\ field.isEditing
    /\ \E text \in FieldTexts :
          field' = [field EXCEPT !.editValue = text, !.last = "input"]
    /\ UNCHANGED <<records, selectedFile, lastOp, input, batch, ret, kbVars>>

\* the field after save(); applied: the parent's handler of update:modelValue
\* stores the emitted value, which comes back as modelValue
Saved(f, applied) ==
    IF f.editValue # f.modelValue
    THEN [f EXCEPT !.emits = @ + 1,
                   !.modelValue = IF applied THEN OrUndefined(f.editValue) ELSE @,
                   !.isEditing = FALSE,
                   !.last = "save",
                   !.detached = TRUE]
    ELSE [f EXCEPT !.isEditing = FALSE, !.last = "save", !.detached = TRUE]

\* the field after cancel()
Cancelled(f) ==
    [f EXCEPT !.editValue = OrEmpty(f.modelValue),
              !.isEditing = FALSE,
              !.last = "cancel",
              !.detached = TRUE]

\* handleKeydown with Enter
KeydownEnter ==
    /\ field.isEditing
    /\ \E applied \in BOOLEAN : field' = Saved(field, applied)
    /\ UNCHANGED <<records, selectedFile, lastOp, input, batch, ret, kbVars>>

\* handleKeydown with Escape
KeydownEscape ==
    /\ field.isEditing
    /\ field' = Cancelled(field)
    /\ UNCHANGED <<records, selectedFile, lastOp, input, batch, ret, kbVars>>

\* handleBlur: the input loses the focus, also by being removed; the timer
\* of 150 ms is started
handleBlur ==
    /\ field.isEditing \/ field.detached
    /\ field.timers < MaxTimers
    /\ field' = [field EXCEPT !.timers = @ + 1, !.detached = FALSE]
    /\ UNCHANGED <<records, selectedFile, lastOp, input, batch, ret, kbVars>>

\* the timer of handleBlur that saves without testing isEditing
BlurTimer_noTest ==
    /\ field.timers > 0
    /\ \E applied \in BOOLEAN :
          field' = [Saved(field, applied) EXCEPT !.timers = @ - 1]
    /\ UNCHANGED <<records, selectedFile, lastOp, input, batch, ret, kbVars>>

\* the callback of the timer of handleBlur
BlurTimer ==
    /\ field.timers > 0
    /\ \E applied \in BOOLEAN :
          field' = IF field.isEditing
                   THEN [Saved(field, applied) EXCEPT !.timers = @ - 1]
                   ELSE [field EXCEPT !.timers = @ - 1, !.last = "timer"]
    /\ UNCHANGED <<records, selectedFile, lastOp, input, batch, ret, kbVars>>

\* the parent changes the model value; the watcher copies it in view mode
WatchModelValue ==
    /\ \E newValue \in FieldValues \ {field.modelValue} :
          field' = [field EXCEPT !.modelValue = newValue,
                                 !.editValue = IF field.isEditing THEN @
                                               ELSE OrEmpty(newValue),
                                 !.last = "watch"]
    /\ UNCHANGED <<records, selectedFile, lastOp, input, batch, ret, kbVars>>

NextField ==
    \/ startEditing
    \/ TypeText
    \/ KeydownEnter
    \/ KeydownEscape
    \/ handleBlur
    \/ BlurTimer
    \/ WatchModelValue

SpecField == InitField /\ [][NextField]_vars

(***************************************************************************)
(* Properties                                                              *)
(***************************************************************************)
\* the stored status as validation reads it: none counts as unverified
StoredStatus(record) ==
    IF record.validationStatus = undefined THEN "unverified"
    ELSE record.validationStatus

\* the COF rule's missing case: absent, empty, white space only or "-"
MissingCOF(cof) == Falsy(cof) \/ cof = <<"-">> \/ IsBlank(cof)

\* the number that a COF string denotes once every character other than a
\* digit or the decimal point is discarded, as a sequence of length <= 1
DenotedCOF(cof) == IF MissingCOF(cof) THEN <<>> ELSE parseCof(cof)

\* the denoted number lies in [0, 1.5]
InRangeCOF(cof) ==
    /\ DenotedCOF(cof) # <<>>
    /\ ~Negative(DenotedCOF(cof)[1])
    /\ ~Above1_5(DenotedCOF(cof)[1])

ValidateRecordReturned == ret.fn = "validateRecord"

ValidateCOFReturned == ret.fn = "validateCOF"

Result == ret.result[1]

C2_EditVerifiedToUnusualWarns ==
    (/\ lastOp.op = "updateRecordField"
     /\ lastOp.field = "cof"
     /\ lastOp.before = "verified"
     /\ records[lastOp.id].cof = Cof_2_0)
        => /\ records[lastOp.id].validationStatus = "warning"
           /\ records[lastOp.id].validationMessage = MsgUnusualCOF

\* C3: after verifyRecord on a record whose status was not 'verified', the
\* record's status is 'verified' and its message is cleared, whatever issues
\* its fields have.
C3_VerifyForcesVerified ==
    (lastOp.op = "verifyRecord" /\ lastOp.before # "verified")
        => /\ records[lastOp.id].validationStatus = "verified"
           /\ records[lastOp.id].validationMessage = undefined

C3_Witness ==
    /\ lastOp.op = "verifyRecord"
    /\ lastOp.before = "warning"
    /\ validateRecord(records[lastOp.id]).issues # <<>>
    /\ records[lastOp.id].validationStatus = "verified"
    /\ records[lastOp.id].validationMessage = undefined

\* C4: after verifyRecord on a record that was already 'verified' and has
\* outstanding issues, the record's status is 'warning' and its message is
\* the first issue's message.
C4_VerifyAgainTogglesOff ==
    (/\ lastOp.op = "verifyRecord"
     /\ lastOp.before = "verified"
     /\ validateRecord(records[lastOp.id]).issues # <<>>)
        => /\ records[lastOp.id].validationStatus = "warning"
           /\ records[lastOp.id].validationMessage =
                  validateRecord(records[lastOp.id]).issues[1].message

\* the record's fields are clean: the COF denotes a number in [0, 1.5], the
\* load is absent or has a unit of the conversion table, the friction force
\* is absent or has a unit
CleanFields(record) ==
    /\ InRangeCOF(record.cof)
    /\ validateLoad(record.load) = <<>>
    /\ validateFrictionForce(record.friction_force) = <<>>

\* C5: validateRecord on a record with clean fields returns no issue, no
\* message and the stored status ('unverified' when none is stored), so a
\* clean unverified record stays 'unverified'.
C5_CleanRecordKeepsStatus ==
    (ValidateRecordReturned /\ CleanFields(input))
        => /\ Result.issues = <<>>
           /\ Result.message = undefined
           /\ Result.status = StoredStatus(input)

\* C6: after markAllAsVerified every record of the selected file is
\* 'verified' with no message if and only if its validation issues hold no
\* issue of severity error.
C6_VerifyAllPromotesErrorFree ==
    lastOp.op = "markAllAsVerified" =>
        \A id \in RecordIds :
            (/\ records[id].validationStatus = "verified"
             /\ records[id].validationMessage = undefined)
                <=> ~hasSeverity(validateRecord(records[id]).issues, "error")

C6_Witness ==
    /\ lastOp.op = "markAllAsVerified"
    /\ \E id \in RecordIds :
          /\ hasSeverity(validateRecord(records[id]).issues, "warning")
          /\ records[id].originalValue # <<>>
          /\ records[id].validationStatus = "verified"
          /\ records[id].validationMessage = undefined

ListedEdges ==
    {<<"unverified", "modified">>, <<"unverified", "warning">>,
     <<"unverified", "verified">>, <<"modified", "warning">>,
     <<"warning", "modified">>, <<"warning", "verified">>,
     <<"verified", "warning">>}

Edge(id) == <<StoredStatus(records[id]), StoredStatus(records[id])'>>

\* C7 as stated: every change of a record's status by an edit, a verify or
\* a verify all follows one of the listed edges.
C7_ListedEdgesOnly ==
    [][\A id \in RecordIds : Edge(id)[1] # Edge(id)[2] => Edge(id) \in ListedEdges]_vars

\* C7 amended: every change of a record's status by an edit, a verify or a
\* verify all follows one of the listed edges or one of modified->verified,
\* verified->modified; warning->verified is taken only by a verify or verify
\* all step, and validateRecord does not return 'verified' for that record.
C7_EdgesWithVerifyOfModified ==
    [][\A id \in RecordIds :
          Edge(id)[1] # Edge(id)[2] =>
              /\ Edge(id) \in ListedEdges \cup {<<"modified", "verified">>,
                                               <<"verified", "modified">>}
              /\ Edge(id) = <<"warning", "verified">> =>
                    /\ lastOp'.op \in {"verifyRecord", "markAllAsVerified"}
                    /\ validateRecord(records[id]).status # "verified"]_vars

C7_Witness ==
    /\ lastOp.op = "verifyRecord"
    /\ lastOp.before = "modified"
    /\ records[lastOp.id].validationStatus = "verified"

\* C8: validateCOF returns no issue for every COF string that denotes a
\* number in [0, 1.5] once the characters other than digits and the decimal
\* point are discarded.
C8_InRangeGivesNoIssue ==
    (ValidateCOFReturned /\ InRangeCOF(input.cof)) => ret.issue = <<>>

\* C9: validateCOF returns the error issue "cannot be negative" for every
\* COF string that denotes a negative number.
C9_NegativeGivesError ==
    (ValidateCOFReturned /\ ~MissingCOF(input.cof) /\ Negative(parseFloat(input.cof)))
        => ret.issue = <<Issue("cof", MsgNegativeCOF, "error")>>

\* C10: validateCOF returns the warning issue "physically unusual" exactly
\* for the COF strings whose parsed number is greater than 1.5.
C10_UnusualIffAbove1_5 ==
    (ValidateCOFReturned /\ ~MissingCOF(input.cof)) =>
        (ret.issue = <<Issue("cof", MsgUnusualCOF, "warning")>>
            <=> (DenotedCOF(input.cof) # <<>> /\ Above1_5(DenotedCOF(input.cof)[1])))

\* C11: validateCOF returns the warning issue "Missing COF value" when the
\* COF is absent, empty, made of white space only or the string "-"; for
\* these inputs the result is never one of the parsing branches.
C11_MissingGivesWarning ==
    (/\ ValidateCOFReturned
     /\ \/ input.cof = absent
        \/ input.cof = <<>>
        \/ \A i \in 1..Len(input.cof) : input.cof[i] \in WhiteSpace
        \/ input.cof = <<"-">>)
        => ret.issue = <<Issue("cof", MsgMissingCOF, "warning")>>

C11_Witness ==
    /\ ValidateCOFReturned
    /\ input.cof = <<"-">>
    /\ ret.issue = <<Issue("cof", MsgMissingCOF, "warning")>>

ValidateLoadReturned == ret.fn = "validateLoad"

\* the issue that the load rule gives to a load whose number-plus-unit
\* parse is parsed: none when the load is absent or its unit is in the
\* conversion table, else one warning
LoadRuleIssue(load, parsed) ==
    IF Falsy(load) THEN <<>>
    ELSE IF parsed = <<>> THEN <<Issue("load", MsgLoadUnit, "warning")>>
    ELSE IF parsed[1].unit \in DOMAIN conversions THEN <<>>
    ELSE <<Issue("load", MsgLoadUnsupported, "warning")>>

\* C12: validateLoad returns no issue when the load is absent or is a number
\* followed by a unit of the conversion table, and otherwise exactly one
\* warning: "must include unit" when no number-plus-unit parses, "unsupported
\* unit" when a unit is parsed that is not in the table.
C12_LoadIssueByUnit ==
    ValidateLoadReturned =>
        ret.issue = LoadRuleIssue(input.load, parseUnitValue(input.load))

ValidateFrictionForceReturned == ret.fn = "validateFrictionForce"

\* a unit is parsed and it is not a unit of the conversion table
UnitOutsideTable(parsed) ==
    parsed # <<>> /\ parsed[1].unit \notin DOMAIN conversions

ParseUnitValueReturned == ret.fn = "parseUnitValue"

NumericPositions(s) == {i \in 1..Len(s) : s[i] \in NumChars}

\* the first run of digits and decimal points of s, "" when there is none
RunFrom(s, i) == SubSeq(s, i, i + PrefixLen(Tail_(s, i), NumChars) - 1)

FirstRun(s) ==
    IF NumericPositions(s) = {} THEN <<>> ELSE RunFrom(s, Leftmost(NumericPositions(s)))

\* C14 as stated: parseUnitValue takes the first run of digits and decimal
\* points as the value, and returns null only when the string has no such
\* run or the run is not a finite number.
C14_FirstRunIsValue ==
    ParseUnitValueReturned =>
        /\ ret.value = <<>> =>
              NumericPositions(input.load) = {} \/ isNaN(parseFloat(FirstRun(input.load)))
        /\ ret.value # <<>> => ret.value[1].value = parseFloat(FirstRun(input.load))

\* positions i..u-1 of s hold digits and decimal points and then white space
\* only, starting with a digit or a decimal point, and a letter stands at u
FollowedByUnit(s, i, u) ==
    /\ 1 <= i /\ i < u /\ u <= Len(s)
    /\ s[i] \in NumChars
    /\ s[u] \in Letters
    /\ \A k \in i..(u - 1) : s[k] \in NumChars \cup WhiteSpace
    /\ \A k \in i..(u - 2) : s[k] \in WhiteSpace => s[k + 1] \in WhiteSpace

RunsWithUnit(s) == {i \in 1..Len(s) : \E u \in 1..Len(s) : FollowedByUnit(s, i, u)}

UnitPosition(s, i) == CHOOSE u \in 1..Len(s) : FollowedByUnit(s, i, u)

LastLetter(s, u) ==
    CHOOSE z \in u..Len(s) :
        /\ \A k \in u..z : s[k] \in Letters
        /\ z = Len(s) \/ s[z + 1] \notin Letters

\* the value and the unit read at the run that starts at i with its unit at u
ReadAt(s, i, u) ==
    [value |-> parseFloat(SelectSeq(SubSeq(s, i, u - 1), LAMBDA c : c \in NumChars)),
     unit  |-> SubSeq(s, u, LastLetter(s, u))]

FirstRunWithUnit(s) ==
    ReadAt(s, Leftmost(RunsWithUnit(s)), UnitPosition(s, Leftmost(RunsWithUnit(s))))

\* C14 amended: parseUnitValue reads the first run of digits and decimal
\* points that is followed, after optional white space, by a letter; the
\* value is the number parsed from that run and the unit is the whole letter
\* run; runs not followed by a letter are skipped; it returns null when the
\* string is absent or empty, when no run is followed by a letter, or when
\* that run does not start with a number.
C14_FirstRunWithUnit ==
    ParseUnitValueReturned =>
        IF Falsy(input.load) \/ RunsWithUnit(input.load) = {}
        THEN ret.value = <<>>
        ELSE IF isNaN(FirstRunWithUnit(input.load).value)
        THEN ret.value = <<>>
        ELSE ret.value = <<FirstRunWithUnit(input.load)>>

C14_Witness ==
    /\ ParseUnitValueReturned
    /\ input.load = Load_1_lt_5_N
    /\ ret.value # <<>>
    /\ ret.value[1].unit = <<"N">>
    /\ ret.value[1].value = parseFloat(<<"5">>)
    /\ ret.value[1].value # parseFloat(FirstRun(input.load))

ConvertToNewtonsReturned == ret.fn = "convertToNewtons"

\* the factors of the claim, as decimal exponents: 1, 1e-3, 1e-6, 1e-6, 1e-9
FactorDecimals(u) ==
    CASE u = <<"N">> -> 0
      [] u = <<"m", "N">> -> 3
      [] u = <<"µ", "N">> -> 6
      [] u = <<"u", "N">> -> 6
      [] u = <<"n", "N">> -> 9

DecimalsOf(v) ==
    IF \E i \in 1..Len(v) : v[i] = "."
    THEN Len(v) - (CHOOSE i \in 1..Len(v) : v[i] = ".")
    ELSE 0

\* the number that the numeral v denotes, times the factor of the unit u
TimesFactor(v, u) ==
    [nan  |-> FALSE,
     neg  |-> v[1] = "-",
     mant |-> NatOf(SelectSeq(v, LAMBDA c : c \in Digits)),
     decs |-> DecimalsOf(v) + FactorDecimals(u)]

\* a and b are the same number
NumEq(a, b) ==
    /\ ~a.nan /\ ~b.nan
    /\ IF a.decs >= b.decs
       THEN a.mant = b.mant * Pow10(a.decs - b.decs)
       ELSE b.mant = a.mant * Pow10(b.decs - a.decs)
    /\ a.mant = 0 \/ a.neg = b.neg

\* C15 as stated: for every unit u of the conversion table and every value
\* v, convertToNewtons("v u") is v times the factor of u.
C15_ValueTimesFactor ==
    ConvertToNewtonsReturned =>
        \A v \in Numerals, u \in DOMAIN conversions :
            input.load = v \o <<" ">> \o u =>
                ret.value # <<>> /\ NumEq(ret.value[1], TimesFactor(v, u))

\* C15 amended: for every unit u of the conversion table and every unsigned
\* decimal numeral v, convertToNewtons("v u") is v times the factor of u; a
\* minus sign before the numeral is not read, so "-v u" gives the same number
\* as "v u".
C15_UnsignedValueTimesFactor ==
    ConvertToNewtonsReturned =>
        \A v \in Numerals, u \in DOMAIN conversions :
            input.load = v \o <<" ">> \o u =>
                /\ ret.value # <<>>
                /\ NumEq(ret.value[1], [TimesFactor(v, u) EXCEPT !.neg = FALSE])

C15_Witness ==
    /\ ConvertToNewtonsReturned
    /\ input.load = Load_55_mN
    /\ ret.value = <<[nan |-> FALSE, neg |-> FALSE, mant |-> 55, decs |-> 3]>>

\* convertToNewtons of "-5 N" is 5, not -5
C15_WitnessSign ==
    /\ ConvertToNewtonsReturned
    /\ input.load = <<"-", "5", " ", "N">>
    /\ ret.value = <<[nan |-> FALSE, neg |-> FALSE, mant |-> 5, decs |-> 0]>>

\* C16: convertToNewtons returns null, never a number, for an input
\* without value and for every input whose parsed unit is not one of the five
\* units of the conversion table.
C16_NullOutsideTable ==
    (/\ ConvertToNewtonsReturned
     /\ \/ parseUnitValue(input.load) = <<>>
        \/ UnitOutsideTable(parseUnitValue(input.load)))
        => ret.value = <<>>

C17_TwoIssues ==
    /\ ValidateRecordReturned
    /\ Len(Result.issues) >= 2
    /\ Result.issues[1].message # Result.issues[Len(Result.issues)].message

\* C17: the message of the ValidationResult is the message of the first
\* issue when the issue list is not empty, and is absent when it is empty.
C17_MessageIsFirstIssue ==
    ValidateRecordReturned =>
        Result.message =
            IF Result.issues # <<>> THEN Result.issues[1].message ELSE undefined

C17_Witness == C17_TwoIssues /\ Result.message = Result.issues[1].message

ValidateBatchReturned == ret.fn = "validateBatch"

HasId(item) == item.id # undefined /\ item.id # ""

\* C19 as stated: the result stored for every record of the batch is what
\* validateRecord returns for that record alone, whatever the other records
\* and their order.
C19_EachRecordValidatedAlone ==
    ValidateBatchReturned =>
        \A i \in 1..Len(batch) :
            HasId(batch[i]) =>
                /\ batch[i].id \in DOMAIN ret.value
                /\ ret.value[batch[i].id] = validateRecord(batch[i].rec)

\* no later record of the batch has the id of the record at i
LastWithId(i) == \A j \in (i + 1)..Len(batch) : batch[j].id # batch[i].id

\* C19 amended: results are stored by record id: a record without id gets
\* no result, and the result stored under an id is what validateRecord
\* returns for the last record of the batch with that id, alone; so a record
\* whose id no later record shares has its own result whatever the others.
C19_LastRecordOfIdValidatedAlone ==
    ValidateBatchReturned =>
        /\ DOMAIN ret.value = {batch[i].id : i \in {j \in 1..Len(batch) : HasId(batch[j])}}
        /\ \A i \in 1..Len(batch) :
              (HasId(batch[i]) /\ LastWithId(i)) =>
                  ret.value[batch[i].id] = validateRecord(batch[i].rec)

\* two records with one id and different results: the later one is stored
C19_Witness ==
    /\ ValidateBatchReturned
    /\ Len(batch) = 2
    /\ HasId(batch[1])
    /\ batch[1].id = batch[2].id
    /\ validateRecord(batch[1].rec) # validateRecord(batch[2].rec)
    /\ ret.value[batch[1].id] = validateRecord(batch[2].rec)

\* C20: validateRecord, validateBatch and the validators of the fields leave
\* the record, and the records of the batch, as they were handed in: no call
\* changes a field, the stored status and message included.
C20_ValidatorsLeaveRecords == [][input' = input /\ batch' = batch]_vars

\* validateRecord has returned a status that differs from the stored one,
\* and the record still holds the stored one
C20_Witness ==
    /\ ValidateRecordReturned
    /\ input.validationStatus = "unverified"
    /\ Result.status = "warning"
    /\ input.validationMessage = undefined
    /\ Result.message # undefined

NormalizeReturned == ret.fn = "normalize"

NormalizeAgainReturned == ret.fn = "normalizeAgain"

\* C21: normalize is idempotent: for every input x, canonical terms and
\* declared aliases included, normalize(normalize(x)) = normalize(x).
C21_NormalizeIdempotent == NormalizeAgainReturned => ret.value = ret.result

\* an alias that is not the canonical term was resolved to the canonical
\* term, and normalizing the canonical term gives it again
C21_Witness ==
    /\ NormalizeAgainReturned
    /\ raw \in UNION {kb.entries[i].aliases : i \in 1..Len(kb.entries)}
    /\ ret.result[1] \in {kb.entries[i].canonicalTerm : i \in 1..Len(kb.entries)}
    /\ ret.result[1] # Trim(raw)
    /\ ret.value = ret.result

C23_CollisionNeverServed ==
    /\ kb.status = "built" => ~AliasCollision(kb.entries)
    /\ AliasCollision(kb.entries) => kb.status \in {"configured", "failed"}
    /\ NormalizeReturned =>
          /\ Cardinality(AliasHits(kb.entries, raw)) <= 1
          /\ Cardinality(NormalHits(kb.entries, raw)) <= 1

\* construction has failed on a base with one alias under both entries
C23_Witness ==
    /\ kb.status = "failed"
    /\ kb.entries[1].aliases \cap kb.entries[2].aliases # {}

\* a reload that adds a colliding alias has been rejected
C23_WitnessReload ==
    /\ kb.status = "built"
    /\ kb.reload = "rejected"
    /\ \E i \in 1..Len(kb.entries), alias \in AddedAliases :
          AliasCollision(WithAlias(kb.entries, i, alias))

\* the place of a field in the order in which validateRecord validates
FieldOrder(f) ==
    CASE f = "cof" -> 1
      [] f = "load" -> 2
      [] f = "friction_force" -> 3
      [] OTHER -> 0

\* C24: validateRecord returns at most one issue for each of cof, load and
\* friction_force, so at most three, in this order of the fields.
C24_OneIssuePerFieldInOrder ==
    ValidateRecordReturned =>
        /\ Len(Result.issues) <= 3
        /\ \A i \in 1..Len(Result.issues) : FieldOrder(Result.issues[i].field) > 0
        /\ \A i, j \in 1..Len(Result.issues) :
              i < j => FieldOrder(Result.issues[i].field) < FieldOrder(Result.issues[j].field)

C24_Witness ==
    /\ ValidateRecordReturned
    /\ Len(Result.issues) = 3
    /\ Result.issues[1].field = "cof"
    /\ Result.issues[2].field = "load"
    /\ Result.issues[3].field = "friction_force"

FieldValidatorReturned ==
    ret.fn \in {"validateCOF", "validateLoad", "validateFrictionForce"}

\* C25: validateCOF, validateLoad and validateFrictionForce return null or
\* an issue of severity 'warning' for every input string; no issue of
\* severity 'error' is among the issues of validateRecord.
C25_NoErrorSeverity ==
    /\ (FieldValidatorReturned /\ ret.issue # <<>>) => ret.issue[1].severity = "warning"
    /\ ValidateRecordReturned => ~hasSeverity(Result.issues, "error")

\* a COF string with a minus sign gets a warning
C25_Witness ==
    /\ ValidateCOFReturned
    /\ input.cof = Cof_neg_0_1
    /\ ret.issue # <<>>
    /\ ret.issue[1].severity = "warning"

\* C26: after updateRecordField on a record of the selected file the status
\* of the record is 'modified' or 'warning' and its message is the message
\* that validateRecord gives for the record.
C26_EditLeavesModifiedOrWarning ==
    lastOp.op = "updateRecordField" =>
        /\ records[lastOp.id].validationStatus \in {"modified", "warning"}
        /\ records[lastOp.id].validationMessage =
              validateRecord(records[lastOp.id]).message

\* a verified record has been edited
C26_Witness ==
    /\ lastOp.op = "updateRecordField"
    /\ lastOp.before = "verified"
    /\ records[lastOp.id].validationStatus = "modified"
    /\ records[lastOp.id].validationMessage # undefined

\* C27: the number that validateCOF checks is, for every COF string, the
\* number that parseCof derives from the string, so the issue returned is
\* the range check of parseCof's number.
C27_SameNumberAsParseCof ==
    (ValidateCOFReturned /\ ~MissingCOF(input.cof)) =>
        /\ NumberOrUndefined(CofNumber(input.cof)) = parseCof(input.cof)
        /\ ret.issue = RangeIssue(parseFloat(KeepChars(input.cof, NumChars)))

ValidateRecordAgainReturned == ret.fn = "validateRecordAgain"

\* C28: when the status returned by validateRecord is stored in the record
\* and the record, its fields unchanged, is validated again, the status, the
\* message and the issues returned are the same.
C28_ValidationIsFixpoint == ValidateRecordAgainReturned => ret.result = ret.value

\* the first validation changed the stored status, the second kept it
C28_Witness ==
    /\ ValidateRecordAgainReturned
    /\ input.validationStatus = "unverified"
    /\ ret.value[1].status = "warning"
    /\ ret.result[1].status = "warning"

\* C29: originalValue is written once for a record: by the first
\* updateRecordField, as the record was before that edit; no later edit,
\* verify or verify all changes it.
C29_SnapshotWrittenOnce ==
    [][\A id \in RecordIds :
          /\ records[id].originalValue # <<>> =>
                records'[id].originalValue = records[id].originalValue
          /\ (records[id].originalValue = <<>> /\ records'[id].originalValue # <<>>) =>
                /\ lastOp'.op = "updateRecordField"
                /\ lastOp'.id = id
                /\ records'[id].originalValue = <<records[id]>>]_vars

\* both fields of a record have been edited and the snapshot holds the
\* extracted values
C29_Witness ==
    \E id \in RecordIds :
        /\ records[id].originalValue # <<>>
        /\ records[id].cof = Cof_2_0
        /\ records[id].load = <<"5">>
        /\ records[id].originalValue[1].cof = Cof_lt_0_01
        /\ records[id].originalValue[1].load = Load_55_mN
        /\ records[id].validationStatus = "verified"

\* C30: an edit session of EditableField emits update:modelValue at most
\* once, also when the timer of a blur runs after Enter; cancel emits nothing
\* and sets the edit text to the model value; a save whose text equals the
\* model value emits nothing.
C30_AtMostOneEmitPerSession ==
    [][/\ field'.emits <= 1
       /\ field'.last = "cancel" =>
             /\ field'.emits = field.emits
             /\ field'.modelValue = field.modelValue
             /\ field'.editValue = OrEmpty(field.modelValue)
       /\ (field'.last = "save" /\ field.isEditing /\ field.editValue = field.modelValue) =>
             field'.emits = field.emits]_vars

\* Enter has saved and emitted, then the timer of the blur has run
C30_Witness ==
    /\ field.last = "timer"
    /\ field.emits = 1
    /\ ~field.isEditing
    /\ field.timers = 0
    /\ field.editValue # field.modelValue

====
